---------------------------- MODULE Spec2Model ----------------------------
(***************************************************************************)
(* Model of the efloat crate (src/src/efloat32.rs): the bit-exact          *)
(* successor / predecessor functions next_f32_up / next_f32_down and the   *)
(* interval-tracked type EFloat32 built on them.                           *)
(*                                                                         *)
(* Floating-point values are IEEE-754 bit patterns, held as naturals.  The *)
(* binary32 / binary64 formats are scaled down to ExpBits / MantBits (and  *)
(* a wider shadow format); the arithmetic is IEEE round-to-nearest-even on *)
(* the bit patterns, with signed zeros, subnormals, infinities and NaN.    *)
(***************************************************************************)
EXTENDS Integers, Sequences, FiniteSets, TLC

\* ------------------------------------------------------------------ bounds
\* Exponent and mantissa field widths of the scaled-down f32.
ExpBits == 2
MantBits == 2
\* Number of arithmetic operations in one run of the client.
MaxOps == 1
\* Number of successive applications of the step functions.
MaxSteps == 2

\* ----------------------------------------------------------------- formats
\* f32 and the wider f64 of the shadow value: every f32 is exactly an f64,
\* and the product of two f32 is exactly an f64 (as 53 >= 2*24 and 11 > 8).
F32 == [E |-> ExpBits, M |-> MantBits]
F64 == [E |-> ExpBits + 1, M |-> 2 * MantBits + 3]

Pow2(n) == 2 ^ n
Max2(a, b) == IF a >= b THEN a ELSE b
Min2(a, b) == IF a <= b THEN a ELSE b

RECURSIVE BitLen(_)
BitLen(m) == IF m = 0 THEN 0 ELSE 1 + BitLen(m \div 2)

Width(fmt) == 1 + fmt.E + fmt.M
Bits(fmt) == 0 .. (Pow2(Width(fmt)) - 1)
Bias(fmt) == Pow2(fmt.E - 1) - 1
EMin(fmt) == 1 - Bias(fmt) - fmt.M
ExpMax(fmt) == Pow2(fmt.E) - 1
SignBit(fmt) == Pow2(fmt.E + fmt.M)

SignOf(fmt, u) == u \div SignBit(fmt)
ExpOf(fmt, u) == (u \div Pow2(fmt.M)) % Pow2(fmt.E)
MantOf(fmt, u) == u % Pow2(fmt.M)
MagOf(fmt, u) == u % SignBit(fmt)

PosZero(fmt) == 0
NegZero(fmt) == SignBit(fmt)
PosInf(fmt) == ExpMax(fmt) * Pow2(fmt.M)
NegInf(fmt) == SignBit(fmt) + PosInf(fmt)
QNaN(fmt) == PosInf(fmt) + Pow2(fmt.M - 1)
OneF(fmt) == Bias(fmt) * Pow2(fmt.M)
MaxFinite(fmt) == PosInf(fmt) - 1
MinPositive(fmt) == Pow2(fmt.M)
WithSign(fmt, s, mag) == s * SignBit(fmt) + mag

is_nan(fmt, u) == ExpOf(fmt, u) = ExpMax(fmt) /\ MantOf(fmt, u) # 0
is_infinite(fmt, u) == ExpOf(fmt, u) = ExpMax(fmt) /\ MantOf(fmt, u) = 0
is_finite(fmt, u) == ExpOf(fmt, u) # ExpMax(fmt)
IsZero(fmt, u) == MagOf(fmt, u) = 0
is_sign_negative(fmt, u) == SignOf(fmt, u) = 1
is_sign_positive(fmt, u) == SignOf(fmt, u) = 0

\* A finite u is (-1)^SignOf * Sig * 2^Exp.
Sig(fmt, u) == IF ExpOf(fmt, u) = 0 THEN MantOf(fmt, u)
               ELSE Pow2(fmt.M) + MantOf(fmt, u)
Exp(fmt, u) == EMin(fmt) + (IF ExpOf(fmt, u) = 0 THEN 0 ELSE ExpOf(fmt, u) - 1)

\* The magnitude of a finite u, in units of the smallest subnormal.
Units(fmt, u) == Sig(fmt, u) * Pow2(Exp(fmt, u) - EMin(fmt))
\* The signed value of a non-NaN u in those units (infinities beyond all).
Ord(fmt, u) == LET mag == IF is_infinite(fmt, u) THEN Units(fmt, MaxFinite(fmt)) + 1
                          ELSE Units(fmt, u)
               IN IF SignOf(fmt, u) = 1 THEN 0 - mag ELSE mag

\* ------------------------------------------------------------- comparisons
FLt(fmt, a, b) == ~is_nan(fmt, a) /\ ~is_nan(fmt, b) /\ Ord(fmt, a) < Ord(fmt, b)
FLe(fmt, a, b) == ~is_nan(fmt, a) /\ ~is_nan(fmt, b) /\ Ord(fmt, a) <= Ord(fmt, b)
FEq(fmt, a, b) == ~is_nan(fmt, a) /\ ~is_nan(fmt, b) /\ Ord(fmt, a) = Ord(fmt, b)
FGt(fmt, a, b) == FLt(fmt, b, a)
FGe(fmt, a, b) == FLe(fmt, b, a)
FNe(fmt, a, b) == ~FEq(fmt, a, b)

\* ---------------------------------------------------------------- rounding
\* Round (-1)^s * (m + sticky) * 2^e to the format, nearest-even; sticky
\* stands for a discarded fraction in (0, 1) of one unit of m.
RoundPack(fmt, s, m, e, sticky) ==
  IF m = 0 THEN WithSign(fmt, s, 0)
  ELSE
    LET L == BitLen(m)
        et == Max2(e + L - (fmt.M + 1), EMin(fmt))
        sh == et - e
        mm == IF sh <= 0 THEN m * Pow2(0 - sh)
              ELSE IF sh > L + 1 THEN 0
              ELSE LET q == m \div Pow2(sh)
                       rem == m % Pow2(sh)
                       half == Pow2(sh - 1)
                   IN IF rem > half \/ (rem = half /\ (sticky \/ q % 2 = 1))
                      THEN q + 1 ELSE q
        k == et - EMin(fmt)
    IN IF k >= ExpMax(fmt) + 1 THEN WithSign(fmt, s, PosInf(fmt))
       ELSE LET mag == k * Pow2(fmt.M) + mm
            IN IF mag >= PosInf(fmt) THEN WithSign(fmt, s, PosInf(fmt))
               ELSE WithSign(fmt, s, mag)

\* Round the exact sum of two non-zero terms (-1)^si * mi * 2^ei.  A term
\* far below the window of the larger one only contributes a sticky bit.
SumRound(fmt, s1, m1, e1, s2, m2, e2) ==
  LET t1 == e1 + BitLen(m1)
      t2 == e2 + BitLen(m2)
      big == IF t1 >= t2 THEN 1 ELSE 2
      sA == IF big = 1 THEN s1 ELSE s2
      mA == IF big = 1 THEN m1 ELSE m2
      eA == IF big = 1 THEN e1 ELSE e2
      sB == IF big = 1 THEN s2 ELSE s1
      mB == IF big = 1 THEN m2 ELSE m1
      eB == IF big = 1 THEN e2 ELSE e1
      tA == Max2(t1, t2)
      e0 == Max2(Min2(eA, eB), Min2(eA, tA - 2 * (fmt.M + 1) - 4))
      a == mA * Pow2(eA - e0)
      dB == e0 - eB
      b == IF dB <= 0 THEN mB * Pow2(0 - dB)
           ELSE IF dB > BitLen(mB) THEN 0 ELSE mB \div Pow2(dB)
      lost == dB > 0 /\ (dB > BitLen(mB) \/ mB % Pow2(dB) # 0)
  IN IF sA = sB THEN RoundPack(fmt, sA, a + b, e0, lost)
     ELSE IF a = b /\ ~lost THEN PosZero(fmt)
     ELSE IF a > b THEN RoundPack(fmt, sA, IF lost THEN a - b - 1 ELSE a - b, e0, lost)
     ELSE RoundPack(fmt, sB, b - a, e0, FALSE)

\* -------------------------------------------------------------- arithmetic
\* Rust's primitive float operations (IEEE-754, round to nearest even).
\* An invalid operation yields the default quiet NaN.
FNeg(fmt, a) == IF SignOf(fmt, a) = 1 THEN a - SignBit(fmt) ELSE a + SignBit(fmt)
FAbs(fmt, a) == MagOf(fmt, a)

FAdd(fmt, a, b) ==
  IF is_nan(fmt, a) \/ is_nan(fmt, b) THEN QNaN(fmt)
  ELSE IF is_infinite(fmt, a)
       THEN (IF is_infinite(fmt, b) /\ SignOf(fmt, a) # SignOf(fmt, b)
             THEN QNaN(fmt) ELSE a)
  ELSE IF is_infinite(fmt, b) THEN b
  ELSE IF IsZero(fmt, a) /\ IsZero(fmt, b)
       THEN (IF SignOf(fmt, a) = 1 /\ SignOf(fmt, b) = 1 THEN NegZero(fmt)
             ELSE PosZero(fmt))
  ELSE IF IsZero(fmt, a) THEN b
  ELSE IF IsZero(fmt, b) THEN a
  ELSE SumRound(fmt, SignOf(fmt, a), Sig(fmt, a), Exp(fmt, a),
                     SignOf(fmt, b), Sig(fmt, b), Exp(fmt, b))

FSub(fmt, a, b) ==
  IF is_nan(fmt, a) \/ is_nan(fmt, b) THEN QNaN(fmt) ELSE FAdd(fmt, a, FNeg(fmt, b))

SignXor(fmt, a, b) == IF SignOf(fmt, a) = SignOf(fmt, b) THEN 0 ELSE 1

FMul(fmt, a, b) ==
  IF is_nan(fmt, a) \/ is_nan(fmt, b) THEN QNaN(fmt)
  ELSE IF is_infinite(fmt, a) \/ is_infinite(fmt, b)
       THEN (IF IsZero(fmt, a) \/ IsZero(fmt, b) THEN QNaN(fmt)
             ELSE WithSign(fmt, SignXor(fmt, a, b), PosInf(fmt)))
  ELSE RoundPack(fmt, SignXor(fmt, a, b), Sig(fmt, a) * Sig(fmt, b),
                 Exp(fmt, a) + Exp(fmt, b), FALSE)

FDiv(fmt, a, b) ==
  IF is_nan(fmt, a) \/ is_nan(fmt, b) THEN QNaN(fmt)
  ELSE IF is_infinite(fmt, a)
       THEN (IF is_infinite(fmt, b) THEN QNaN(fmt)
             ELSE WithSign(fmt, SignXor(fmt, a, b), PosInf(fmt)))
  ELSE IF is_infinite(fmt, b) THEN WithSign(fmt, SignXor(fmt, a, b), 0)
  ELSE IF IsZero(fmt, b)
       THEN (IF IsZero(fmt, a) THEN QNaN(fmt)
             ELSE WithSign(fmt, SignXor(fmt, a, b), PosInf(fmt)))
  ELSE IF IsZero(fmt, a) THEN WithSign(fmt, SignXor(fmt, a, b), 0)
  ELSE LET p == fmt.M + 1
           ma == Sig(fmt, a)
           k == (p - BitLen(ma)) + p + 2
           n == ma * Pow2(k)
           mb == Sig(fmt, b)
       IN RoundPack(fmt, SignXor(fmt, a, b), n \div mb,
                    Exp(fmt, a) - k - Exp(fmt, b), n % mb # 0)

\* The remainder of truncated division (the sign of a, exact).
FRem(fmt, a, b) ==
  IF is_nan(fmt, a) \/ is_nan(fmt, b) \/ is_infinite(fmt, a) \/ IsZero(fmt, b)
  THEN QNaN(fmt)
  ELSE IF is_infinite(fmt, b) \/ IsZero(fmt, a) THEN a
  ELSE RoundPack(fmt, SignOf(fmt, a), Units(fmt, a) % Units(fmt, b), EMin(fmt), FALSE)

RECURSIVE ISqrt(_, _)
\* The largest r with r * r <= n, searched downward from the bit at position k.
ISqrt(n, k) == IF k < 0 THEN 0
               ELSE LET r == ISqrt(n \div 4, k - 1) * 2
                    IN IF (r + 1) * (r + 1) <= n THEN r + 1 ELSE r

FSqrt(fmt, a) ==
  IF is_nan(fmt, a) THEN QNaN(fmt)
  ELSE IF IsZero(fmt, a) THEN a
  ELSE IF SignOf(fmt, a) = 1 THEN QNaN(fmt)
  ELSE IF is_infinite(fmt, a) THEN a
  ELSE LET p == fmt.M + 1
           ma == Sig(fmt, a)
           k0 == 2 * p + 2 - BitLen(ma)
           k == IF (Exp(fmt, a) - k0) % 2 = 0 THEN k0 ELSE k0 + 1
           n == ma * Pow2(k)
           r == ISqrt(n, p + 2)
       IN RoundPack(fmt, 0, r, (Exp(fmt, a) - k) \div 2, r * r # n)

\* Integer part q of a finite, non-zero a, and the fraction rem / den dropped.
IntPart(fmt, a) ==
  LET e == Exp(fmt, a)
      m == Sig(fmt, a)
  IN IF e >= 0 THEN [q |-> m * Pow2(e), rem |-> 0, den |-> 1]
     ELSE [q |-> m \div Pow2(0 - e), rem |-> m % Pow2(0 - e), den |-> Pow2(0 - e)]

\* trunc, floor, ceil and round (half-way cases away from zero).
Integral(fmt, a, mode) ==
  IF is_nan(fmt, a) THEN QNaN(fmt)
  ELSE IF is_infinite(fmt, a) \/ IsZero(fmt, a) THEN a
  ELSE LET ip == IntPart(fmt, a)
           up == CASE mode = "trunc" -> FALSE
                   [] mode = "floor" -> SignOf(fmt, a) = 1 /\ ip.rem > 0
                   [] mode = "ceil" -> SignOf(fmt, a) = 0 /\ ip.rem > 0
                   [] mode = "round" -> 2 * ip.rem >= ip.den /\ ip.rem > 0
       IN RoundPack(fmt, SignOf(fmt, a), IF up THEN ip.q + 1 ELSE ip.q, 0, FALSE)

FTrunc(fmt, a) == Integral(fmt, a, "trunc")
FFloor(fmt, a) == Integral(fmt, a, "floor")
FCeil(fmt, a) == Integral(fmt, a, "ceil")
FRound(fmt, a) == Integral(fmt, a, "round")

\* f32::fract is self - self.trunc().
FFract(fmt, a) == FSub(fmt, a, FTrunc(fmt, a))
\* f32::signum: NaN for NaN, else 1.0 with the sign of self.
FSignum(fmt, a) == IF is_nan(fmt, a) THEN QNaN(fmt)
                   ELSE WithSign(fmt, SignOf(fmt, a), OneF(fmt))
FRecip(fmt, a) == FDiv(fmt, OneF(fmt), a)

\* Fused multiply-add a * b + c with a single rounding.
FMulAdd(fmt, a, b, c) ==
  IF is_nan(fmt, a) \/ is_nan(fmt, b) \/ is_nan(fmt, c) THEN QNaN(fmt)
  ELSE IF is_infinite(fmt, a) \/ is_infinite(fmt, b)
       THEN (IF IsZero(fmt, a) \/ IsZero(fmt, b) THEN QNaN(fmt)
             ELSE FAdd(fmt, WithSign(fmt, SignXor(fmt, a, b), PosInf(fmt)), c))
  ELSE IF is_infinite(fmt, c) THEN c
  ELSE IF IsZero(fmt, a) \/ IsZero(fmt, b)
       THEN FAdd(fmt, WithSign(fmt, SignXor(fmt, a, b), 0), c)
  ELSE IF IsZero(fmt, c)
       THEN RoundPack(fmt, SignXor(fmt, a, b), Sig(fmt, a) * Sig(fmt, b),
                      Exp(fmt, a) + Exp(fmt, b), FALSE)
  ELSE SumRound(fmt, SignXor(fmt, a, b), Sig(fmt, a) * Sig(fmt, b),
                     Exp(fmt, a) + Exp(fmt, b),
                     SignOf(fmt, c), Sig(fmt, c), Exp(fmt, c))

\* `x as f64`: exact widening of an f32.
AsF64(u) ==
  IF is_nan(F32, u) THEN WithSign(F64, SignOf(F32, u), QNaN(F64))
  ELSE IF is_infinite(F32, u) THEN WithSign(F64, SignOf(F32, u), PosInf(F64))
  ELSE RoundPack(F64, SignOf(F32, u), Sig(F32, u), Exp(F32, u), FALSE)

\* ------------------------------------------------------ f32 operations
\* The f32 operations the crate uses, tabulated over all f32 bit patterns.
T32Add == [a \in Bits(F32) |-> [b \in Bits(F32) |-> FAdd(F32, a, b)]]
T32Sub == [a \in Bits(F32) |-> [b \in Bits(F32) |-> FSub(F32, a, b)]]
T32Mul == [a \in Bits(F32) |-> [b \in Bits(F32) |-> FMul(F32, a, b)]]
T32Div == [a \in Bits(F32) |-> [b \in Bits(F32) |-> FDiv(F32, a, b)]]
T32Rem == [a \in Bits(F32) |-> [b \in Bits(F32) |-> FRem(F32, a, b)]]
T32Sqrt == [a \in Bits(F32) |-> FSqrt(F32, a)]
T32AsF64 == [a \in Bits(F32) |-> AsF64(a)]
T32Ord == [a \in Bits(F32) |-> IF is_nan(F32, a) THEN 0 ELSE Ord(F32, a)]

Lt32(a, b) == ~is_nan(F32, a) /\ ~is_nan(F32, b) /\ T32Ord[a] < T32Ord[b]
Le32(a, b) == ~is_nan(F32, a) /\ ~is_nan(F32, b) /\ T32Ord[a] <= T32Ord[b]
Eq32(a, b) == ~is_nan(F32, a) /\ ~is_nan(F32, b) /\ T32Ord[a] = T32Ord[b]
Gt32(a, b) == Lt32(b, a)
Ge32(a, b) == Le32(b, a)
Ne32(a, b) == ~Eq32(a, b)
Add32(a, b) == T32Add[a][b]
Sub32(a, b) == T32Sub[a][b]
Mul32(a, b) == T32Mul[a][b]
Div32(a, b) == T32Div[a][b]
Rem32(a, b) == T32Rem[a][b]
\* f32::min / f32::max: a NaN operand gives the other operand.
Min32(a, b) ==
  LET c == IF is_nan(F32, b) \/ Lt32(a, b) THEN a ELSE b
  IN IF is_nan(F32, c) THEN QNaN(F32) ELSE c
Max32(a, b) ==
  LET c == IF is_nan(F32, a) \/ Lt32(a, b) THEN b ELSE a
  IN IF is_nan(F32, c) THEN QNaN(F32) ELSE c
Sqrt32(a) == T32Sqrt[a]
Recip32(a) == T32Div[OneF(F32)][a]
as_f64(a) == T32AsF64[a]

\* ------------------------------------------------------------------- state
VARIABLES
  debug_assertions, \* the build: cfg(debug_assertions) on (dev) or off (release)
  self,             \* the client's first operand (an EFloat32, or NoVal)
  other,            \* the client's second operand
  r,                \* the value the last operation returned
  op,               \* the name of the last constructor or operation called
  checked,          \* whether that call ran check() on what it returned
  panicked,         \* an assert! in check() failed: the thread has panicked
  args,             \* the scalar arguments of that call (constructors)
  nops,             \* the number of operations applied so far
  plain,            \* every value so far came from new, or new_with_err with err >= 0
  f,                \* step functions: the bit pattern they were started on
  out,              \* step functions: the current bit pattern
  steps,            \* step functions: the functions applied, in order
  out64,            \* 64-bit step functions: the current bit pattern
  taken64           \* 64-bit step functions: the branch the last call took

vars == <<debug_assertions, self, other, r, op, checked, args, panicked, nops, plain, f, out, steps, out64, taken64>>
efvars == <<debug_assertions, self, other, r, op, checked, args, panicked, nops, plain>>
stepvars == <<f, out, steps, out64, taken64>>

NoVal == [none |-> TRUE]

\* --------------------------------------------------------------- UlpStep
bits_to_f32(u) == u % Pow2(Width(F32))
f32_to_bits(x) == x

\* Which branch next_f32_up takes.
next_f32_up_case(x) ==
  IF is_infinite(F32, x) /\ Gt32(x, PosZero(F32)) THEN "saturate"
  ELSE IF Eq32(x, NegZero(F32)) /\ is_sign_negative(F32, x) THEN "zero"
  ELSE IF Ge32(x, PosZero(F32)) THEN "inc" ELSE "dec"

\* The unsigned integer next_f32_up computes, before it is stored in a u32.
next_f32_up_u(x) ==
  IF next_f32_up_case(x) = "inc" THEN f32_to_bits(x) + 1 ELSE f32_to_bits(x) - 1

\* next_f32_up without the test of the sign: the bit pattern always grows.
next_f32_up_unsigned(x) ==
  IF next_f32_up_case(x) = "saturate" THEN x ELSE bits_to_f32(f32_to_bits(x) + 1)

next_f32_up(x) ==
  CASE next_f32_up_case(x) = "saturate" -> x
    [] next_f32_up_case(x) = "zero" -> PosZero(F32)
    [] OTHER -> bits_to_f32(next_f32_up_u(x))

\* The branches of next_f32_down with !(f > -0.0) in place of f <= -0.0 as the
\* last test: a NaN increments.
next_f32_down_case_notgt(x) ==
  IF is_infinite(F32, x) /\ Lt32(x, PosZero(F32)) THEN "saturate"
  ELSE IF Eq32(x, PosZero(F32)) /\ is_sign_positive(F32, x) THEN "zero"
  ELSE IF ~Gt32(x, NegZero(F32)) THEN "inc" ELSE "dec"

\* Which branch next_f32_down takes.
next_f32_down_case(x) ==
  IF is_infinite(F32, x) /\ Lt32(x, PosZero(F32)) THEN "saturate"
  ELSE IF Eq32(x, PosZero(F32)) /\ is_sign_positive(F32, x) THEN "zero"
  ELSE IF Le32(x, NegZero(F32)) THEN "inc" ELSE "dec"

next_f32_down_u(x) ==
  IF next_f32_down_case(x) = "inc" THEN f32_to_bits(x) + 1 ELSE f32_to_bits(x) - 1

\* next_f32_down with f == 0.0 alone as the test of its second branch, without
\* is_sign_positive(): both zeros step to -0.0.
next_f32_down_anyzero(x) ==
  IF next_f32_down_case(x) = "saturate" THEN x
  ELSE IF Eq32(x, PosZero(F32)) THEN NegZero(F32)
  ELSE bits_to_f32(next_f32_down_u(x))

next_f32_down(x) ==
  CASE next_f32_down_case(x) = "saturate" -> x
    [] next_f32_down_case(x) = "zero" -> NegZero(F32)
    [] OTHER -> bits_to_f32(next_f32_down_u(x))

\* ------------------------------------------------- bin/next_f64.rs
bits_to_f64(u) == u % Pow2(Width(F64))
f64_to_bits(x) == x

\* Which branch next_f64_up takes: its second test is f == -0.0 alone.
next_f64_up_case(x) ==
  IF is_infinite(F64, x) /\ FGt(F64, x, PosZero(F64)) THEN "saturate"
  ELSE IF FEq(F64, x, NegZero(F64)) THEN "zero"
  ELSE IF FGe(F64, x, PosZero(F64)) THEN "inc" ELSE "dec"

next_f64_up_u(x) ==
  IF next_f64_up_case(x) = "inc" THEN f64_to_bits(x) + 1 ELSE f64_to_bits(x) - 1

next_f64_up(x) ==
  CASE next_f64_up_case(x) = "saturate" -> x
    [] next_f64_up_case(x) = "zero" -> PosZero(F64)
    [] OTHER -> bits_to_f64(next_f64_up_u(x))

\* Which branch next_f64_down takes: its second test is f == 0.0 alone.
next_f64_down_case(x) ==
  IF is_infinite(F64, x) /\ FLt(F64, x, PosZero(F64)) THEN "saturate"
  ELSE IF FEq(F64, x, PosZero(F64)) THEN "zero"
  ELSE IF FLe(F64, x, NegZero(F64)) THEN "inc" ELSE "dec"

next_f64_down_u(x) ==
  IF next_f64_down_case(x) = "inc" THEN f64_to_bits(x) + 1 ELSE f64_to_bits(x) - 1

next_f64_down(x) ==
  CASE next_f64_down_case(x) = "saturate" -> x
    [] next_f64_down_case(x) = "zero" -> NegZero(F64)
    [] OTHER -> bits_to_f64(next_f64_down_u(x))

\* The step functions and the unary f32 operations, tabulated.
up == [x \in Bits(F32) |-> next_f32_up(x)]
down == [x \in Bits(F32) |-> next_f32_down(x)]
T32Trunc == [a \in Bits(F32) |-> FTrunc(F32, a)]
T32Fract == [a \in Bits(F32) |-> FFract(F32, a)]
T32Floor == [a \in Bits(F32) |-> FFloor(F32, a)]
T32Ceil == [a \in Bits(F32) |-> FCeil(F32, a)]
T32Round == [a \in Bits(F32) |-> FRound(F32, a)]
Trunc32(a) == T32Trunc[a]
Fract32(a) == T32Fract[a]

\* ---------------------------------------------------------------- EFloat32
\* The struct; the field precise exists only under cfg(debug_assertions).
EFloat32(v, low, high, precise) ==
  [v |-> v, low |-> low, high |-> high,
   precise |-> IF debug_assertions THEN precise ELSE 0]

\* check(): TRUE when no assert! fails.
check(ef) ==
  /\ (~is_infinite(F32, ef.low) /\ ~is_nan(F32, ef.low)
      /\ ~is_infinite(F32, ef.high) /\ ~is_nan(F32, ef.high))
       => Le32(ef.low, ef.high)
  /\ (debug_assertions /\ ~is_infinite(F32, ef.v) /\ ~is_nan(F32, ef.v))
       => /\ FLe(F64, as_f64(ef.low), ef.precise)
          /\ FLe(F64, ef.precise, as_f64(ef.high))

\* What a call builds: the value, whether the call runs check() on it before
\* returning it, and whether the asserts of an earlier check() in the call passed.
Checked(ef) == [ef |-> ef, chk |-> TRUE, pre |-> TRUE]
Unchecked(ef) == [ef |-> ef, chk |-> FALSE, pre |-> TRUE]
DebugChecked(ef) == IF debug_assertions THEN Checked(ef) ELSE Unchecked(ef)
\* The call returns (TRUE) or panics in an assert! (FALSE).
Passes(res) == res.pre /\ (res.chk => check(res.ef))

new(v) == DebugChecked(EFloat32(v, v, v, as_f64(v)))

\* new_with_err without the outward step: [v - err, v + err] as computed.
new_with_err_exact(v, err) ==
  DebugChecked(EFloat32(v, Sub32(v, err), Add32(v, err), as_f64(v)))

new_with_err(v, err) ==
  DebugChecked(EFloat32(v, down[Sub32(v, err)],
                        up[Add32(v, err)], as_f64(v)))

\* Only compiled under cfg(debug_assertions).
new_with_precise_err(v, p, err) ==
  LET first == new_with_err(v, err)
  IN [ef |-> [first.ef EXCEPT !.precise = p], chk |-> TRUE, pre |-> Passes(first)]

sqrt(x) ==
  Checked(EFloat32(Sqrt32(x.v), down[Sqrt32(x.low)],
                   up[Sqrt32(x.high)], FSqrt(F64, x.precise)))

\* The inherent EFloat32::abs.  In the last branch the unary minus applies
\* to the result of the method call: -(self.low.max(self.high)).
abs(x) ==
  IF Ge32(x.low, PosZero(F32)) THEN Unchecked(x)
  ELSE IF Le32(x.high, PosZero(F32))
       THEN Checked(EFloat32(FNeg(F32, x.v), FNeg(F32, x.high), FNeg(F32, x.low),
                             FNeg(F64, x.precise)))
  ELSE Checked(EFloat32(FAbs(F32, x.v), PosZero(F32),
                        FNeg(F32, Max32(x.low, x.high)), FAbs(F64, x.precise)))

add(x, y) ==
  Checked(EFloat32(Add32(x.v, y.v), down[Add32(x.low, y.low)],
                   up[Add32(x.high, y.high)],
                   FAdd(F64, x.precise, y.precise)))

sub(x, y) ==
  Checked(EFloat32(Sub32(x.v, y.v), down[Sub32(x.low, y.high)],
                   up[Sub32(x.high, y.low)],
                   FSub(F64, x.precise, y.precise)))

\* prod[0].min(prod[1]).min(prod[2].min(prod[3])), and the same with max.
Min4(p) == Min32(Min32(p[1], p[2]), Min32(p[3], p[4]))
Max4(p) == Max32(Max32(p[1], p[2]), Max32(p[3], p[4]))

mul_prod(x, y) == <<Mul32(x.low, y.low), Mul32(x.high, y.low),
                    Mul32(x.low, y.high), Mul32(x.high, y.high)>>

\* Multiplication without the outward step: [min, max] of the corner products.
mul_exact(x, y) ==
  Checked(EFloat32(Mul32(x.v, y.v), Min4(mul_prod(x, y)), Max4(mul_prod(x, y)),
                   FMul(F64, x.precise, y.precise)))

mul(x, y) ==
  Checked(EFloat32(Mul32(x.v, y.v), down[Min4(mul_prod(x, y))],
                   up[Max4(mul_prod(x, y))],
                   FMul(F64, x.precise, y.precise)))

\* other.low < 0.0 && other.high > 0.0
Straddles(y) == Lt32(y.low, PosZero(F32)) /\ Gt32(y.high, PosZero(F32))

div_prod(x, y) == <<Div32(x.low, y.low), Div32(x.high, y.low),
                    Div32(x.low, y.high), Div32(x.high, y.high)>>

\* Division without the early return: the corner quotients in every case.
div_corners(x, y) ==
  Checked(EFloat32(Div32(x.v, y.v), down[Min4(div_prod(x, y))],
                   up[Max4(div_prod(x, y))],
                   FDiv(F64, x.precise, y.precise)))

div(x, y) ==
  IF Straddles(y)
  THEN Unchecked(EFloat32(Div32(x.v, y.v), NegInf(F32), PosInf(F32),
                          FDiv(F64, x.precise, y.precise)))
  ELSE Checked(EFloat32(Div32(x.v, y.v), down[Min4(div_prod(x, y))],
                        up[Max4(div_prod(x, y))],
                        FDiv(F64, x.precise, y.precise)))

rem_prod(x, y) == <<Rem32(x.low, y.low), Rem32(x.high, y.low),
                    Rem32(x.low, y.high), Rem32(x.high, y.high)>>

\* The straddling branch divides the values; both branches divide the shadows.
rem(x, y) ==
  IF Straddles(y)
  THEN Unchecked(EFloat32(Div32(x.v, y.v), NegInf(F32), PosInf(F32),
                          FDiv(F64, x.precise, y.precise)))
  ELSE Checked(EFloat32(Rem32(x.v, y.v), down[Min4(rem_prod(x, y))],
                        up[Max4(rem_prod(x, y))],
                        FDiv(F64, x.precise, y.precise)))

\* Negation whose value follows the shadow: the bound on the side of the shadow
\* when the shadow lies below v.
neg_following(x) ==
  Checked(EFloat32(IF FLt(F64, x.precise, as_f64(x.v)) THEN FNeg(F32, x.low) ELSE FNeg(F32, x.v),
                   FNeg(F32, x.high), FNeg(F32, x.low), FNeg(F64, x.precise)))

neg(x) ==
  Checked(EFloat32(FNeg(F32, x.v), FNeg(F32, x.high), FNeg(F32, x.low),
                   FNeg(F64, x.precise)))

zero == Unchecked(EFloat32(PosZero(F32), PosZero(F32), PosZero(F32), PosZero(F64)))
one == Unchecked(EFloat32(OneF(F32), OneF(F32), OneF(F32), OneF(F64)))
\* from_str_radix (on a string that parses to x) and NumCast::from.
from_str_radix(x) == Unchecked(EFloat32(x, x, x, as_f64(x)))
from(x) == Unchecked(EFloat32(x, x, x, as_f64(x)))
\* fn_noparams_self!: nan, infinity, neg_infinity, neg_zero, min_value,
\* min_positive_value, max_value.
fn_noparams_self(x) == Unchecked(EFloat32(x, x, x, as_f64(x)))
FloatConsts == {QNaN(F32), PosInf(F32), NegInf(F32), NegZero(F32),
                WithSign(F32, 1, MaxFinite(F32)), MinPositive(F32), MaxFinite(F32)}
\* f32::EPSILON and f64::EPSILON: the gap between 1.0 and the next value.
EpsilonOf(fmt) == RoundPack(fmt, 0, 1, 0 - fmt.M, FALSE)
epsilon == Unchecked(EFloat32(EpsilonOf(F32), EpsilonOf(F32), EpsilonOf(F32),
                              EpsilonOf(F64)))

\* fn_self_self!: floor, ceil, round, trunc.
FnSelf32(fn, a) ==
  CASE fn = "floor" -> T32Floor[a]
    [] fn = "ceil" -> T32Ceil[a]
    [] fn = "round" -> T32Round[a]
    [] fn = "trunc" -> T32Trunc[a]
FnSelf64(fn, a) ==
  CASE fn = "floor" -> FFloor(F64, a)
    [] fn = "ceil" -> FCeil(F64, a)
    [] fn = "round" -> FRound(F64, a)
    [] fn = "trunc" -> FTrunc(F64, a)

fn_self_self(fn, x) ==
  Checked(EFloat32(FnSelf32(fn, x.v), down[FnSelf32(fn, x.low)],
                   up[FnSelf32(fn, x.high)], FnSelf64(fn, x.precise)))

\* self.low.trunc() != self.high.trunc()
CrossesInteger(x) == Ne32(Trunc32(x.low), Trunc32(x.high))

\* fract without the branch for an interval that crosses an integer.
fract_uncrossed(x) ==
  Checked(EFloat32(Fract32(x.v), Fract32(x.low), Fract32(x.high),
                   FFract(F64, x.precise)))

fract(x) ==
  IF CrossesInteger(x)
  THEN Checked(EFloat32(Fract32(x.v), PosZero(F32), down[OneF(F32)],
                        FFract(F64, x.precise)))
  ELSE Checked(EFloat32(Fract32(x.v), Fract32(x.low), Fract32(x.high),
                        FFract(F64, x.precise)))

\* Float::abs.
float_abs(x) ==
  Checked(EFloat32(
    FAbs(F32, x.v),
    IF Lt32(x.low, PosZero(F32)) /\ Gt32(x.high, PosZero(F32))
    THEN PosZero(F32)
    ELSE down[Min32(FAbs(F32, x.low), FAbs(F32, x.high))],
    up[Max32(FAbs(F32, x.low), FAbs(F32, x.high))],
    FAbs(F64, x.precise)))

signum(x) ==
  Checked(EFloat32(FSignum(F32, x.v), FSignum(F32, x.low), FSignum(F32, x.high),
                   FSignum(F64, x.precise)))

mul_add_prod(x, a, b) ==
  <<FMulAdd(F32, x.low, a.low, b.low), FMulAdd(F32, x.low, a.low, b.high),
    FMulAdd(F32, x.low, a.high, b.low), FMulAdd(F32, x.low, a.high, b.high),
    FMulAdd(F32, x.high, a.low, b.low), FMulAdd(F32, x.high, a.low, b.high),
    FMulAdd(F32, x.high, a.high, b.low), FMulAdd(F32, x.high, a.high, b.high)>>

\* Iterator::min_by / max_by with cmp, folding from the first element: min_by
\* keeps the earlier element unless it is greater, max_by keeps it only if it
\* is greater.
MinStep == [best \in Bits(F32) |-> [x \in Bits(F32) |-> IF Gt32(best, x) THEN x ELSE best]]
MaxStep == [best \in Bits(F32) |-> [x \in Bits(F32) |-> IF Gt32(best, x) THEN best ELSE x]]
RECURSIVE MinBy(_, _)
MinBy(p, i) == IF i = 1 THEN p[1] ELSE MinStep[MinBy(p, i - 1)][p[i]]
RECURSIVE MaxBy(_, _)
MaxBy(p, i) == IF i = 1 THEN p[1] ELSE MaxStep[MaxBy(p, i - 1)][p[i]]

\* prod is built once; low and high are its min_by and max_by.
mul_add(x, a, b) ==
  LET lowhigh == CHOOSE lh \in {<<MinBy(p, 8), MaxBy(p, 8)>> : p \in {mul_add_prod(x, a, b)}} : TRUE
  IN Checked(EFloat32(FMulAdd(F32, x.v, a.v, b.v), down[lowhigh[1]], up[lowhigh[2]],
                      FMulAdd(F64, x.precise, a.precise, b.precise)))

recip(x) ==
  Checked(EFloat32(Recip32(x.v),
                   down[Min32(Recip32(x.low), Recip32(x.high))],
                   up[Max32(Recip32(x.low), Recip32(x.high))],
                   FRecip(F64, x.precise)))

\* ------------------------------------------------------------------ inputs
\* The f32 literal (-1)^s * m * 2^e.
Lit(s, m, e) == RoundPack(F32, s, m, e, FALSE)

\* Values and error bounds the client constructs operands from.
InV == {PosZero(F32), OneF(F32), Lit(1, 1, 1), Lit(0, 3, 0), Lit(1, 5, -1)}
InErr == {PosZero(F32), Lit(0, 1, -1), Lit(0, 3, 0), Lit(1, 1, 0)}
\* Shadow values handed to new_with_precise_err: an f32, and 1 + ulp/2.
InP == {as_f64(OneF(F32)), RoundPack(F64, 0, Pow2(MantBits + 1) + 1, 0 - (MantBits + 1), FALSE)}

\* ----------------------------------------------------------------- actions
\* A call returns res.ef into r, or panics in check().
Return(name, a, res) ==
  /\ op' = name
  /\ args' = a
  /\ checked' = res.chk
  /\ IF Passes(res) THEN r' = res.ef /\ panicked' = FALSE
     ELSE r' = NoVal /\ panicked' = TRUE

\* The client builds a value while it still has an operand to fill, once it
\* has stored the value the last call returned.
CanConstruct == ~panicked /\ other = NoVal /\ r = NoVal

New ==
  /\ CanConstruct
  /\ \E v \in InV : \E res \in {new(v)} : Return("new", <<v>>, res)
  /\ UNCHANGED <<debug_assertions, self, other, nops, plain, stepvars>>

NewWithErr ==
  /\ CanConstruct
  /\ \E v \in InV, err \in InErr :
       /\ \E res \in {new_with_err(v, err)} : Return("new_with_err", <<v, err>>, res)
       /\ plain' = (plain /\ Ge32(err, PosZero(F32)))
  /\ UNCHANGED <<debug_assertions, self, other, nops, stepvars>>

NewWithPreciseErr ==
  /\ CanConstruct
  /\ debug_assertions
  /\ \E v \in {OneF(F32)}, p \in InP, err \in InErr :
       \E res \in {new_with_precise_err(v, p, err)} : Return("new_with_precise_err", <<v, p, err>>, res)
  /\ plain' = FALSE
  /\ UNCHANGED <<debug_assertions, self, other, nops, stepvars>>

NumIdentity ==
  /\ CanConstruct
  /\ \/ \E res \in {zero} : Return("zero", <<>>, res)
     \/ \E res \in {one} : Return("one", <<>>, res)
     \/ \E res \in {epsilon} : Return("epsilon", <<>>, res)
     \/ \E x \in FloatConsts : \E res \in {fn_noparams_self(x)} : Return("fn_noparams_self", <<x>>, res)
     \/ \E x \in {OneF(F32)} : \E res \in {from_str_radix(x)} : Return("from_str_radix", <<x>>, res)
     \/ \E x \in {OneF(F32)} : \E res \in {from(x)} : Return("from", <<x>>, res)
  /\ plain' = FALSE
  /\ UNCHANGED <<debug_assertions, self, other, nops, stepvars>>

\* The client keeps the returned value as an operand of its next call:
\* let self = r; (alone, or beside other) or let other = r;
Store ==
  /\ ~panicked
  /\ r # NoVal
  /\ nops < MaxOps
  /\ \/ self' = r /\ other' = NoVal /\ (self = NoVal \/ nops > 0)
     \/ self' = r /\ other' = other /\ other # NoVal /\ nops > 0
     \/ other' = r /\ self' = self /\ self # NoVal
  /\ r' = NoVal
  /\ op' = "none"
  /\ args' = <<>>
  /\ checked' = FALSE
  /\ UNCHANGED <<debug_assertions, panicked, nops, plain, stepvars>>

\* The client calls an operation once it has stored the last returned value.
CanApply == ~panicked /\ nops < MaxOps /\ self # NoVal /\ r = NoVal

Unary ==
  /\ CanApply
  /\ other = NoVal
  /\ \/ \E res \in {sqrt(self)} : Return("sqrt", <<>>, res)
     \/ \E res \in {abs(self)} : Return("abs", <<>>, res)
     \/ \E res \in {neg(self)} : Return("neg", <<>>, res)
     \/ \E fn \in {"floor", "ceil", "round", "trunc"} : \E res \in {fn_self_self(fn, self)} : Return(fn, <<>>, res)
     \/ \E res \in {fract(self)} : Return("fract", <<>>, res)
     \/ \E res \in {float_abs(self)} : Return("float_abs", <<>>, res)
     \/ \E res \in {signum(self)} : Return("signum", <<>>, res)
     \/ \E res \in {recip(self)} : Return("recip", <<>>, res)
  /\ nops' = nops + 1
  /\ UNCHANGED <<debug_assertions, self, other, plain, stepvars>>

Binary ==
  /\ CanApply
  /\ other # NoVal
  /\ \/ \E res \in {add(self, other)} : Return("add", <<>>, res)
     \/ \E res \in {sub(self, other)} : Return("sub", <<>>, res)
     \/ \E res \in {mul(self, other)} : Return("mul", <<>>, res)
     \/ \E res \in {div(self, other)} : Return("div", <<>>, res)
     \/ \E res \in {rem(self, other)} : Return("rem", <<>>, res)
     \/ \E res \in {mul_add(self, other, self)} : Return("mul_add", <<>>, res)
  /\ nops' = nops + 1
  /\ UNCHANGED <<debug_assertions, self, other, plain, stepvars>>

StepInit == f = 0 /\ out = 0 /\ steps = <<>> /\ out64 = 0 /\ taken64 = "none"

Init ==
  /\ debug_assertions \in BOOLEAN
  /\ self = NoVal
  /\ other = NoVal
  /\ r = NoVal
  /\ op = "none"
  /\ args = <<>>
  /\ checked = FALSE
  /\ panicked = FALSE
  /\ nops = 0
  /\ plain = TRUE
  /\ StepInit

Next == New \/ NewWithErr \/ NewWithPreciseErr \/ NumIdentity \/ Store \/ Unary \/ Binary

Spec == Init /\ [][Next]_vars

\* -------------------------------------------- the step functions on their own
StepUp ==
  /\ Len(steps) < MaxSteps
  /\ out' = next_f32_up(out)
  /\ steps' = Append(steps, "up")
  /\ UNCHANGED <<f, out64, taken64, efvars>>

StepDown ==
  /\ Len(steps) < MaxSteps
  /\ out' = next_f32_down(out)
  /\ steps' = Append(steps, "down")
  /\ UNCHANGED <<f, out64, taken64, efvars>>

\* The 64-bit functions, started on the f64 of the same value.
StepUp64 ==
  /\ Len(steps) < MaxSteps
  /\ out64' = next_f64_up(out64)
  /\ taken64' = next_f64_up_case(out64)
  /\ steps' = Append(steps, "up64")
  /\ UNCHANGED <<f, out, efvars>>

StepDown64 ==
  /\ Len(steps) < MaxSteps
  /\ out64' = next_f64_down(out64)
  /\ taken64' = next_f64_down_case(out64)
  /\ steps' = Append(steps, "down64")
  /\ UNCHANGED <<f, out, efvars>>

InitStep ==
  /\ debug_assertions = TRUE
  /\ self = NoVal
  /\ other = NoVal
  /\ r = NoVal
  /\ op = "none"
  /\ args = <<>>
  /\ checked = FALSE
  /\ panicked = FALSE
  /\ nops = 0
  /\ plain = TRUE
  /\ f \in Bits(F32)
  /\ out = f
  /\ steps = <<>>
  /\ out64 = as_f64(f)
  /\ taken64 = "none"

NextStep == StepUp \/ StepDown \/ StepUp64 \/ StepDown64

SpecStep == InitStep /\ [][NextStep]_vars

\* ------------------------------------------------------------- properties
Zero32 == PosZero(F32)
One32 == OneF(F32)
MinSub32 == next_f32_up(PosZero(F32))

\* The arithmetic operations of EFloat32 (abs is both the inherent method and
\* the one of the Float trait).
ArithOps == {"add", "sub", "mul", "div", "rem", "neg", "abs", "float_abs", "sqrt",
             "floor", "ceil", "round", "trunc", "fract", "signum", "recip", "mul_add"}

\* low as f64 <= precise <= high as f64
ContainsShadow(ef) ==
  /\ FLe(F64, as_f64(ef.low), ef.precise)
  /\ FLe(F64, ef.precise, as_f64(ef.high))

\* C1: in a build with the shadow value, an arithmetic operation applied to
\* values that come from new, new_with_err with err >= 0 and earlier such
\* operations never aborts in check(), and the shadow value of its result lies
\* in [low, high] whenever the best estimate is finite.
C1_Containment ==
  (debug_assertions /\ plain /\ op \in ArithOps)
    => /\ ~panicked
       /\ is_finite(F32, r.v) => ContainsShadow(r)

\* C2: every value returned to the caller has low <= high, unless low or high
\* is infinite or NaN.
C2_WellFormed ==
  (r # NoVal /\ is_finite(F32, r.low) /\ is_finite(F32, r.high))
    => Le32(r.low, r.high)

\* x lies in [ef.low, ef.high].
Within(x, ef) == Le32(ef.low, x) /\ Le32(x, ef.high)

\* C3: when the divisor does not straddle zero, the interval a % b returns
\* contains x % y for every x of a and every non-zero y of b (here: for every
\* representable such x and y).
C3_RemPointwise ==
  (op = "rem" /\ ~panicked /\ ~Straddles(other))
    => \A x, y \in Bits(F32) :
         (is_finite(F32, x) /\ Within(x, self) /\ Within(y, other) /\ ~IsZero(F32, y))
           => Within(Rem32(x, y), r)

\* y is the least value strictly greater than x.
IsNextAbove(x, y) ==
  /\ Lt32(x, y)
  /\ \A g \in Bits(F32) : ~(Lt32(x, g) /\ Lt32(g, y))

\* y is the greatest value strictly less than x.
IsNextBelow(x, y) ==
  /\ Lt32(y, x)
  /\ \A g \in Bits(F32) : ~(Lt32(y, g) /\ Lt32(g, x))

\* C4: for every non-NaN x other than +infinity and -0.0, next_f32_up(x) is the
\* smallest f32 strictly greater than x; for every non-NaN x other than
\* -infinity and +0.0, next_f32_down(x) is the largest f32 strictly less than x.
C4_NextIsNeighbour ==
  /\ (steps = <<"up">> /\ ~is_nan(F32, f) /\ f # PosInf(F32) /\ f # NegZero(F32))
       => IsNextAbove(f, out)
  /\ (steps = <<"down">> /\ ~is_nan(F32, f) /\ f # NegInf(F32) /\ f # PosZero(F32))
       => IsNextBelow(f, out)

\* next_f32_down has taken -0.0 to the negative subnormal next to it.
C4_Witness ==
  /\ steps = <<"down">>
  /\ f = NegZero(F32)
  /\ out = WithSign(F32, 1, MinSub32)

\* C5: for every finite non-zero x, next_f32_down(next_f32_up(x)) == x and
\* next_f32_up(next_f32_down(x)) == x, bit for bit.
C5_StepInverse ==
  (is_finite(F32, f) /\ ~IsZero(F32, f) /\ steps \in {<<"up", "down">>, <<"down", "up">>})
    => out = f

\* Up then down from the negative subnormal next to zero, through -0.0.
C5_Witness ==
  /\ steps = <<"up", "down">>
  /\ f = WithSign(F32, 1, MinSub32)
  /\ out = f

\* C6: for every numerator a and every divisor b with b.low < 0 < b.high,
\* a / b returns an interval with low == -infinity and high == +infinity.
C6_DivStraddle ==
  (op = "div" /\ Straddles(other))
    => /\ ~panicked
       /\ r.low = NegInf(F32)
       /\ r.high = PosInf(F32)

\* A finite numerator has been divided by a divisor that straddles zero.
C6_Witness ==
  /\ op = "div"
  /\ Straddles(other)
  /\ is_finite(F32, self.low) /\ is_finite(F32, self.high)
  /\ ~panicked
  /\ r.low = NegInf(F32)
  /\ r.high = PosInf(F32)

\* C7: abs of an interval with low < 0 < high returns, without aborting, an
\* interval with low == 0 and high >= max(|low|, |high|), for the inherent
\* method as for the method of the Float trait.
C7_AbsStraddle ==
  (op \in {"abs", "float_abs"} /\ Straddles(self))
    => /\ ~panicked
       /\ Eq32(r.low, Zero32)
       /\ Ge32(r.high, Max32(FAbs(F32, self.low), FAbs(F32, self.high)))

\* new_with_err(v, err) has been called with finite v and finite err >= 0.
C8_Case ==
  /\ op = "new_with_err"
  /\ is_finite(F32, args[1])
  /\ is_finite(F32, args[2])
  /\ Ge32(args[2], Zero32)

\* What new_with_err(v, err) returns whatever v - err and v + err are.
C8_Bounds ==
  /\ ~panicked
  /\ r.low = next_f32_down(Sub32(args[1], args[2]))
  /\ r.high = next_f32_up(Add32(args[1], args[2]))
  /\ r.v = args[1]
  /\ Le32(r.low, args[1])
  /\ Le32(args[1], r.high)

\* C8 (as stated): for every finite v and finite err >= 0, new_with_err(v, err)
\* returns low == next_down(v - err) and high == next_up(v + err), low strictly
\* below v - err and high strictly above v + err, the value v, and
\* low <= v <= high.
C8_OutwardStrict ==
  C8_Case
    => /\ C8_Bounds
       /\ Lt32(r.low, Sub32(args[1], args[2]))
       /\ Gt32(r.high, Add32(args[1], args[2]))

\* C8 (amended): as stated, except that low is not strictly below v - err when
\* v - err is +0.0 (low is -0.0) or -infinity, and high is not strictly above
\* v + err when v + err is -0.0 (high is +0.0) or +infinity.
C8_Outward ==
  C8_Case
    => /\ C8_Bounds
       /\ Lt32(r.low, Sub32(args[1], args[2]))
            \/ Sub32(args[1], args[2]) \in {PosZero(F32), NegInf(F32)}
       /\ Gt32(r.high, Add32(args[1], args[2]))
            \/ Add32(args[1], args[2]) \in {NegZero(F32), PosInf(F32)}

\* new_with_err(1.0, 0.5) has returned bounds strictly outside [0.5, 1.5].
C8_Witness ==
  /\ op = "new_with_err"
  /\ args = <<One32, Lit(0, 1, -1)>>
  /\ ~panicked
  /\ Lt32(r.low, Lit(0, 1, -1))
  /\ Gt32(r.high, Lit(0, 3, -1))

\* g is the largest value below 1.0.
LargestBelowOne(g) ==
  /\ Lt32(g, One32)
  /\ \A h \in Bits(F32) : Lt32(h, One32) => Le32(h, g)

Corners == IF op = "mul" THEN mul_prod(self, other) ELSE div_prod(self, other)
C10_Case ==
  /\ op \in {"mul", "div"}
  /\ ~panicked
  /\ is_finite(F32, self.low) /\ is_finite(F32, self.high)
  /\ is_finite(F32, other.low) /\ is_finite(F32, other.high)
  /\ op = "div" => /\ ~Straddles(other)
                   /\ \A i \in 1..4 : ~is_nan(F32, Corners[i])

\* C10 (as stated): the result of a * b or a / b has low < c < high for each
\* finite corner product or quotient c.
C10_CornersStrict ==
  C10_Case
    => \A i \in 1..4 : is_finite(F32, Corners[i])
         => Lt32(r.low, Corners[i]) /\ Lt32(Corners[i], r.high)

\* C10 (amended): low <= c <= high for each finite corner c, strictly so
\* unless c is zero and the bound is the zero the step function takes the
\* other zero to (low -0.0, high +0.0).
C10_Corners ==
  C10_Case
    => \A i \in 1..4 : is_finite(F32, Corners[i])
         => /\ Lt32(r.low, Corners[i])
                 \/ (IsZero(F32, Corners[i]) /\ r.low = NegZero(F32))
            /\ Lt32(Corners[i], r.high)
                 \/ (IsZero(F32, Corners[i]) /\ r.high = PosZero(F32))

\* A product of two bounded intervals of non-zero width has been returned,
\* with a non-zero corner strictly inside it.
C10_Witness ==
  /\ op = "mul"
  /\ C10_Case
  /\ Lt32(self.low, self.high) /\ Lt32(other.low, other.high)
  /\ \E i \in 1..4 : /\ is_finite(F32, Corners[i]) /\ ~IsZero(F32, Corners[i])
                     /\ Lt32(r.low, Corners[i]) /\ Lt32(Corners[i], r.high)

\* a and b are the same f32 value: the same bits, or both NaN.
SameF32(a, b) == a = b \/ (is_nan(F32, a) /\ is_nan(F32, b))

\* C11: the best-estimate value of a % b is a.value % b.value for every pair
\* of operands, also when the divisor straddles zero and the result is
\* widened to (-infinity, +infinity).
C11_RemValue ==
  (op = "rem" /\ ~panicked) => SameF32(r.v, Rem32(self.v, other.v))

\* C12: every value a constructor or an operation returns has been passed
\* through check() by that call before it is returned.
C12_AlwaysChecked ==
  (op # "none" /\ r # NoVal) => checked

\* The operation called name, applied to x (and y).
Apply(name, x, y) ==
  CASE name = "sqrt" -> sqrt(x)
    [] name = "abs" -> abs(x)
    [] name = "neg" -> neg(x)
    [] name \in {"floor", "ceil", "round", "trunc"} -> fn_self_self(name, x)
    [] name = "fract" -> fract(x)
    [] name = "float_abs" -> float_abs(x)
    [] name = "signum" -> signum(x)
    [] name = "recip" -> recip(x)
    [] name = "add" -> add(x, y)
    [] name = "sub" -> sub(x, y)
    [] name = "mul" -> mul(x, y)
    [] name = "div" -> div(x, y)
    [] name = "rem" -> rem(x, y)
    [] name = "mul_add" -> mul_add(x, y, x)

\* Shadow values of the second run.
Shadows == InP \cup {PosZero(F64)}

\* x with the shadow p, when x is a value.
WithShadow(x, p) == IF x = NoVal THEN x ELSE [x EXCEPT !.precise = p]

\* a and b agree on value, low and high.
SameInterval(a, b) == a.v = b.v /\ a.low = b.low /\ a.high = b.high

\* C13: a second run of the operation on operands with the same value, low and
\* high but other shadows returns, when it completes, the same value, low and
\* high as the first; and new_with_precise_err returns the value, low and
\* high of new_with_err.
C13_ShadowNonInterference ==
  /\ (debug_assertions /\ op \in ArithOps /\ ~panicked)
       => \A p \in Shadows, q \in Shadows :
            \A res \in {Apply(op, WithShadow(self, p), WithShadow(other, q))} :
              Passes(res) => SameInterval(res.ef, r)
  /\ (op = "new_with_precise_err" /\ ~panicked)
       => SameInterval(r, new_with_err(args[1], args[3]).ef)

\* A sum has been returned, and the same sum with another shadow of the first
\* operand passes check() as well.
C13_Witness ==
  /\ debug_assertions
  /\ op = "add"
  /\ ~panicked
  /\ \E p \in Shadows : /\ p # self.precise
                        /\ Passes(add(WithShadow(self, p), other))
                        /\ SameInterval(add(WithShadow(self, p), other).ef, r)

\* C14: for every class of input (either zero, either infinity, positive or
\* negative finite) next_f64_up / next_f64_down take the branch (saturate, the
\* opposite zero, increment, decrement) that next_f32_up / next_f32_down take
\* on the same value.
C14_SameDecision ==
  /\ (steps = <<"up64">> /\ ~is_nan(F32, f)) => taken64 = next_f32_up_case(f)
  /\ (steps = <<"down64">> /\ ~is_nan(F32, f)) => taken64 = next_f32_down_case(f)

\* C15: recip(a) returns the low and high that dividing the point interval 1
\* by a returns, also when a straddles zero.
C15_RecipIsDiv ==
  (op = "recip" /\ ~panicked)
    => /\ SameF32(r.low, div(new(One32).ef, self).ef.low)
       /\ SameF32(r.high, div(new(One32).ef, self).ef.high)

\* The values of a u32.
U32 == 0 .. (Pow2(Width(F32)) - 1)

\* C16: in next_f32_up and next_f32_down, u += 1 and u -= 1 never leave the
\* range of the unsigned bit pattern, for any input bit pattern: the result
\* is the incremented or decremented integer itself.
C16_NoOverflow ==
  /\ (steps = <<"up">> /\ next_f32_up_case(f) \in {"inc", "dec"})
       => next_f32_up_u(f) \in U32 /\ out = next_f32_up_u(f)
  /\ (steps = <<"down">> /\ next_f32_down_case(f) \in {"inc", "dec"})
       => next_f32_down_u(f) \in U32 /\ out = next_f32_down_u(f)

\* next_f32_down has decremented the NaN whose bits are all ones.
C16_Witness ==
  /\ steps = <<"down">>
  /\ f = Pow2(Width(F32)) - 1
  /\ next_f32_down_case(f) = "dec"
  /\ out = f - 1

==========================================================================
